---- MODULE Spec2Model ----
(***************************************************************************)
(* Model of the conversational bot of src/bot.py (the revision that starts *)
(* at line 333 of the file): the per-user session store user_data, the     *)
(* handlers start, cancel, handle_message and callback_handler, and the    *)
(* helpers split_message, clean_response, extract_idea_headings and        *)
(* retry_send_message.                                                     *)
(*                                                                         *)
(* Texts are sequences of one-character strings.  A Python dict is a       *)
(* function whose domain is the set of keys that are present.              *)
(*                                                                         *)
(* A handler runs from its first statement to its return (or to the        *)
(* exception that leaves it) in one step.  Every call of                   *)
(* retry_send_message may return or raise after its last attempt, and      *)
(* every call of the Generative Service may fail, return an empty text or  *)
(* return a text.  Button presses explore_idea_<n> are those of the ideas  *)
(* menu of the session (n up to the number of headings); the other         *)
(* buttons can be pressed at any time.  Spec has the whole conversation    *)
(* with one free text and every button but start_new; SpecCollect has the  *)
(* commands, two free texts and the buttons of the onboarding menu;        *)
(* SpecStale has explore_idea_<n> arriving at any time and with any n.     *)
(* SpecChunker, SpecSanitizer and SpecRetrier call split_message,          *)
(* clean_response and retry_send_message on their own, on every argument   *)
(* within the bounds.  SpecConcurrent runs two explore_idea handlers of    *)
(* one user statement by statement on two worker threads, and SpecInFlight *)
(* runs a /start or /cancel of a user next to a handler of the same user   *)
(* that waits for the Generative Service.                                  *)
(***************************************************************************)
EXTENDS Integers, Sequences, FiniteSets, TLC

VARIABLES
    user_data,  \* the session store: a dict from user id to session dict
    last,       \* the event handled last and how its handler ended
    sent,       \* the calls of retry_send_message of that handler, in order
    run,        \* <<"start", texts...>> while a start and the texts after it all succeeded
    arg,        \* the arguments of a call of split_message or clean_response
    ret,        \* what that call returned, and what a call on its result returned
    retry,      \* a call of retry_send_message: its arguments, its loop variable, its waits
    threads     \* the callback handlers in flight, each with its position and locals

vars == <<user_data, last, sent, run, arg, ret, retry, threads>>

(***************************************************************************)
(* Characters                                                              *)
(***************************************************************************)
NL == "\n"
SP == " "
\* a character outside \x00-\x7F that is not white space
NonAscii == "~"

IsSpace(c) == c \in {SP, NL}
IsDelim(c) == c \in {"*", "_"}
IsDigit(c) == c \in {"1", "2"}
IsAscii(c) == c # NonAscii

Drop(s, n) == SubSeq(s, n + 1, Len(s))
Take(s, n) == SubSeq(s, 1, n)

(***************************************************************************)
(* str.split('\n') and '\n'.join                                           *)
(***************************************************************************)
RECURSIVE SplitFrom(_, _, _)
\* the lines of text[i..], cur being the characters of the line begun so far
SplitFrom(text, i, cur) ==
    IF i > Len(text) THEN <<cur>>
    ELSE IF text[i] = NL THEN <<cur>> \o SplitFrom(text, i + 1, <<>>)
    ELSE SplitFrom(text, i + 1, Append(cur, text[i]))

SplitLines(text) == SplitFrom(text, 1, <<>>)

RECURSIVE JoinLines(_)
JoinLines(lines) ==
    IF Len(lines) = 0 THEN <<>>
    ELSE IF Len(lines) = 1 THEN lines[1]
    ELSE lines[1] \o <<NL>> \o JoinLines(Tail(lines))

(***************************************************************************)
(* split_message                                                           *)
(***************************************************************************)
MAX_LENGTH == 4000

RECURSIVE SplitLoop(_, _, _, _, _, _)
\* the for loop of split_message from line i on, and the final flush
SplitLoop(lines, i, parts, current_part, current_length, max_length) ==
    IF i > Len(lines)
    THEN IF current_part # <<>>
         THEN Append(parts, JoinLines(current_part))
         ELSE parts
    ELSE IF current_length + Len(lines[i]) + 1 > max_length
    THEN SplitLoop(lines, i + 1, Append(parts, JoinLines(current_part)),
                   <<lines[i]>>, Len(lines[i]) + 1, max_length)
    ELSE SplitLoop(lines, i + 1, parts, Append(current_part, lines[i]),
                   current_length + Len(lines[i]) + 1, max_length)

\* a chunker that lets a part grow two characters past the size
SplitWithSlack(text, max_length) ==
    SplitLoop(SplitLines(text), 1, <<>>, <<>>, 0, max_length + 2)
\* a chunker that starts a new part one character early
SplitEarly(text, max_length) ==
    SplitLoop(SplitLines(text), 1, <<>>, <<>>, 0, max_length - 1)
split_message(text, max_length) ==
    SplitLoop(SplitLines(text), 1, <<>>, <<>>, 0, max_length)

(***************************************************************************)
(* clean_response                                                          *)
(***************************************************************************)
RECURSIVE HashEnd(_, _), DigitEnd(_, _), SpaceEnd(_, _), LineEnd(_, _), NonAsciiEnd(_, _)
\* the first position >= i of text that holds no '#' (no digit, no white
\* space, a line break, an ASCII character), or Len(text) + 1
HashEnd(text, i) ==
    IF i <= Len(text) /\ text[i] = "#" THEN HashEnd(text, i + 1) ELSE i
DigitEnd(text, i) ==
    IF i <= Len(text) /\ IsDigit(text[i]) THEN DigitEnd(text, i + 1) ELSE i
SpaceEnd(text, i) ==
    IF i <= Len(text) /\ IsSpace(text[i]) THEN SpaceEnd(text, i + 1) ELSE i
LineEnd(text, i) ==
    IF i <= Len(text) /\ text[i] # NL THEN LineEnd(text, i + 1) ELSE i
NonAsciiEnd(text, i) ==
    IF i <= Len(text) /\ ~IsAscii(text[i]) THEN NonAsciiEnd(text, i + 1) ELSE i

RECURSIVE TitleStart(_, _, _)
\* \s*([^\n]+) with \s* greedy and backtracking: the largest k in lo..hi at
\* which a non line-break character stands, or 0
TitleStart(text, lo, k) ==
    IF k < lo THEN 0
    ELSE IF k <= Len(text) /\ text[k] # NL THEN k
    ELSE TitleStart(text, lo, k - 1)

\* ([^\n]+) from g on: <<start of group 1, end of the match (exclusive)>>
HeaderTitle(text, g) == IF g = 0 THEN <<0, 0>> ELSE <<g, LineEnd(text, g)>>
\* \.\s*([^\n]+), b being the end of the digits that start after position a
HeaderDot(text, a, b) ==
    IF b = a + 1 \/ ~(b <= Len(text) /\ text[b] = ".") THEN <<0, 0>>
    ELSE HeaderTitle(text, TitleStart(text, b + 1, SpaceEnd(text, b + 1)))
\* ' \d+...', a being the end of the '#'s
HeaderSpace(text, a) ==
    IF ~(a <= Len(text) /\ text[a] = SP) THEN <<0, 0>>
    ELSE HeaderDot(text, a, DigitEnd(text, a + 1))
\* a match of #+ \d+\.\s*([^\n]+) at position i, or <<0, 0>>
HeaderMatch(text, i) ==
    IF ~(i <= Len(text) /\ text[i] = "#") THEN <<0, 0>>
    ELSE HeaderSpace(text, HashEnd(text, i))

RECURSIVE SubHeaders(_, _), SubHeadersAt(_, _, _)
\* re.sub(r'#+ \d+\.\s*([^\n]+)', r'**\1**', text) from position i on
SubHeaders(text, i) ==
    IF i > Len(text) THEN <<>> ELSE SubHeadersAt(text, i, HeaderMatch(text, i))
SubHeadersAt(text, i, m) ==
    IF m[1] = 0 THEN <<text[i]>> \o SubHeaders(text, i + 1)
    ELSE <<"*", "*">> \o SubSeq(text, m[1], m[2] - 1) \o <<"*", "*">>
           \o SubHeaders(text, m[2])

IsWord(text, i) == i <= Len(text) /\ ~IsSpace(text[i]) /\ ~IsDelim(text[i])

RECURSIVE SubDelims(_, _)
\* re.sub(r'([*_]{1,2})([^\s*_])', r'\1 \2', text) from position i on
SubDelims(text, i) ==
    IF i > Len(text) THEN <<>>
    ELSE IF IsDelim(text[i]) /\ i + 1 <= Len(text) /\ IsDelim(text[i + 1])
            /\ IsWord(text, i + 2)
    THEN <<text[i], text[i + 1], SP, text[i + 2]>> \o SubDelims(text, i + 3)
    ELSE IF IsDelim(text[i]) /\ IsWord(text, i + 1)
    THEN <<text[i], SP, text[i + 1]>> \o SubDelims(text, i + 2)
    ELSE <<text[i]>> \o SubDelims(text, i + 1)

RECURSIVE SubNonAscii(_, _)
\* re.sub(r'[^\x00-\x7F]+', ' ', text) from position i on
SubNonAscii(text, i) ==
    IF i > Len(text) THEN <<>>
    ELSE IF IsAscii(text[i]) THEN <<text[i]>> \o SubNonAscii(text, i + 1)
    ELSE <<SP>> \o SubNonAscii(text, NonAsciiEnd(text, i))

RECURSIVE Strip(_)
\* str.strip()
Strip(line) ==
    IF line = <<>> THEN line
    ELSE IF IsSpace(line[1]) THEN Strip(Tail(line))
    ELSE IF IsSpace(line[Len(line)]) THEN Strip(Take(line, Len(line) - 1))
    ELSE line

RECURSIVE StripLines(_)
\* [line.strip() for line in lines if line.strip()]
NonEmpty(l) == IF l = <<>> THEN <<>> ELSE <<l>>
StripLines(lines) ==
    IF lines = <<>> THEN <<>>
    ELSE NonEmpty(Strip(lines[1])) \o StripLines(Tail(lines))

\* a sanitizer that leaves the emphasis delimiters as they are
CleanWithoutDelims(text) ==
    JoinLines(StripLines(SplitLines(SubNonAscii(SubHeaders(text, 1), 1))))
clean_response(text) ==
    JoinLines(StripLines(SplitLines(SubNonAscii(SubDelims(SubHeaders(text, 1), 1), 1))))

(***************************************************************************)
(* extract_idea_headings                                                   *)
(***************************************************************************)
MAX_HEADINGS == 3

RECURSIVE BoldEnd(_, _)
\* (.+?)\*\* from position k on: the first k' >= k with line[k'..k'+1] = "**", or 0
BoldEnd(line, k) ==
    IF k + 1 > Len(line) THEN 0
    ELSE IF line[k] = "*" /\ line[k + 1] = "*" THEN k
    ELSE BoldEnd(line, k + 1)

\* match.group(1).strip() in a list, k being where the closing ** starts
HeadingGroup(line, k) == IF k = 0 THEN <<>> ELSE <<Strip(SubSeq(line, 3, k - 1))>>
\* re.match(r'\*\*(.+?)\*\*', line): <<the heading>> or <<>>
HeadingMatch(line) ==
    IF Len(line) >= 2 /\ line[1] = "*" /\ line[2] = "*"
    THEN HeadingGroup(line, BoldEnd(line, 4))
    ELSE <<>>

RECURSIVE AllHeadings(_)
AllHeadings(lines) ==
    IF lines = <<>> THEN <<>>
    ELSE HeadingMatch(lines[1]) \o AllHeadings(Tail(lines))

\* the list of headings without the cut
EveryHeading(headings) == headings
\* headings[:3]
FirstThree(headings) ==
    Take(headings, IF Len(headings) < MAX_HEADINGS THEN Len(headings) ELSE MAX_HEADINGS)

extract_idea_headings(text) == FirstThree(AllHeadings(SplitLines(text)))

(***************************************************************************)
(* Identifiers, states, inputs                                             *)
(***************************************************************************)
\* the users that send events; call.message.from_user of a button press is
\* the bot itself, the author of the message that carries the button
Users == {"u1"}
BOT == "bot"
Ids == Users \cup {BOT}

SKILLS == "SKILLS"
LOCATION == "LOCATION"
BUDGET == "BUDGET"
GOALS == "GOALS"
ASK_QUESTION == "ASK_QUESTION"
EXPLORE_IDEA == "EXPLORE_IDEA"
CUSTOM_IDEA == "CUSTOM_IDEA"

\* free texts of inbound messages, and a command that is neither /start nor /cancel
Texts == {"t1", "t2"}
OneText == {"t1"}
OtherCommands == {"/help"}
startswith_slash(text) == text \in OtherCommands \cup {"/start", "/cancel"}

\* range(1, 4)
IdeaRange == 1 .. 3

\* the n of the explore_idea_<n> tokens a client sends
MaxSelection == 3
Selections == 1 .. MaxSelection

\* the calls of retry_send_message a start_new press can make: its own send, the
\* two of start, and the sends of the two except clauses
MaxSends == 5

(***************************************************************************)
(* dict                                                                    *)
(***************************************************************************)
EmptyDict == [k \in {} |-> k]
Has(d, k) == k \in DOMAIN d
Put(d, k, v) == [x \in DOMAIN d \cup {k} |-> IF x = k THEN v ELSE d[x]]
Pop(d, k) == [x \in DOMAIN d \ {k} |-> d[x]]
\* user_data[u][k] = v, for a present u
PutField(ud, u, k, v) == Put(ud, u, Put(ud[u], k, v))

\* list[i] of Python, i an integer: <<element>>, or <<>> for an IndexError
PyIndex(list, i) ==
    LET j == IF i < 0 THEN i + Len(list) ELSE i
    IN IF j >= 0 /\ j < Len(list) THEN <<list[j + 1]>> ELSE <<>>

InList(x, list) == \E i \in 1 .. Len(list) : list[i] = x

(***************************************************************************)
(* A handler run: the store, the messages handed to retry_send_message in  *)
(* order (with the menu attached and whether the call returned), and the   *)
(* number of generate_content calls.  outs[k] says whether the k-th call   *)
(* of retry_send_message of the run returns (TRUE) or raises after its     *)
(* last attempt (FALSE).                                                   *)
(***************************************************************************)
Outcome(outs, k) == IF k \in DOMAIN outs THEN outs[k] ELSE TRUE

Ctx(ud) == [ud |-> ud, sent |-> <<>>, gen |-> 0]

\* retry_send_message(bot.send_message, chat_id, msg, reply_markup=menu)
Send(c, msg, menu, outs) ==
    [c EXCEPT !.sent = Append(@, [msg |-> msg, menu |-> menu,
                                  ok |-> Outcome(outs, Len(@) + 1)])]
\* the last call of retry_send_message, if any, returned
Ok(c) == c.sent = <<>> \/ c.sent[Len(c.sent)].ok

Return(c) == [ud |-> c.ud, sent |-> c.sent, gen |-> c.gen, raised |-> FALSE]
Raise(c) == [ud |-> c.ud, sent |-> c.sent, gen |-> c.gen, raised |-> TRUE]
ReturnIfOk(c) == IF Ok(c) THEN Return(c) ELSE Raise(c)
\* a send that is the last statement of a handler or of an except clause
SendLast(c, msg, menu, outs) == ReturnIfOk(Send(c, msg, menu, outs))

\* user_data.pop(id, None), user_data[id] = session, user_data[u][k] = v
PopUser(c, id) == [c EXCEPT !.ud = Pop(@, id)]
PutUser(c, id, session) == [c EXCEPT !.ud = Put(@, id, session)]
SetField(c, u, k, v) == [c EXCEPT !.ud = PutField(@, u, k, v)]
\* model.generate_content(prompt, ...) is called
Called(c) == [c EXCEPT !.gen = @ + 1]

(***************************************************************************)
(* start, cancel                                                           *)
(***************************************************************************)
FreshSession == [state |-> SKILLS]

\* the except clause of start and of cancel
SorryTryAgain(c, outs) == SendLast(c, "sorry_try_again", <<>>, outs)

\* user_data[message.from_user.id] = {'state': State.SKILLS}
StartCreate(c, id, outs) ==
    IF Ok(c) THEN Return(PutUser(c, id, FreshSession)) ELSE SorryTryAgain(c, outs)
\* retry_send_message(bot.set_chat_menu_button, message.chat.id, None)
StartMenuButton(c, id, outs) ==
    IF Ok(c) THEN StartCreate(Send(c, "set_chat_menu_button", <<>>, outs), id, outs)
    ELSE SorryTryAgain(c, outs)
\* the body of start(message), message.from_user.id = id, run after the sends of c
start_body(c, id, outs) ==
    StartMenuButton(Send(PopUser(c, id), "welcome", <<>>, outs), id, outs)

start(ud, id, outs) == start_body(Ctx(ud), id, outs)

CancelSent(c, outs) == IF Ok(c) THEN Return(c) ELSE SorryTryAgain(c, outs)
\* a cancel that forgets user_data.pop(user_id, None)
CancelKeepsSession(ud, id, outs) ==
    CancelSent(Send(Ctx(ud), "cancelled", <<>>, outs), outs)
cancel(ud, id, outs) ==
    CancelSent(Send(PopUser(Ctx(ud), id), "cancelled", <<>>, outs), outs)

(***************************************************************************)
(* handle_message                                                          *)
(***************************************************************************)
\* a button: <<callback_data without its number, the number>>
Tok(name) == <<name, 0>>
Explore(i) == <<"explore_idea", i>>

\* GenerateText: g.ok is FALSE for an error or a timeout; an empty text raises
\* ValueError in the handler
GenFailed(g) == ~g.ok \/ g.text = <<>>

\* the first line of the ideas message ("Here are your side hustle ideas:")
IdeasIntro == <<"H">>

\* the keys a prompt reads; a missing one raises KeyError
HasAttrs(s) == {"location", "skills", "budget", "goals"} \subseteq DOMAIN s

RECURSIVE SendParts(_, _, _, _, _)
\* for i, msg in enumerate(messages, 1): retry_send_message(...), from part i on
SendParts(c, parts, i, msg, outs) ==
    IF i > Len(parts) \/ ~Ok(c) THEN c
    ELSE SendParts(Send(c, msg, <<>>, outs), parts, i + 1, msg, outs)

\* cleaned_response = clean_response(response.text); split_message; the sends
Deliver(c, g, msg, outs) ==
    SendParts(c, split_message(clean_response(g.text), MAX_LENGTH), 1, msg, outs)

\* the outer except clause of handle_message: report, then pop
MessageExceptSent(c, u) == IF Ok(c) THEN Return(PopUser(c, u)) ELSE Raise(c)
MessageExcept(c, u, outs) == MessageExceptSent(Send(c, "error", <<>>, outs), u)

\* an inner except clause of handle_message ("Gemini error"): apologise, pop, return
GenExceptSent(c, u, outs) ==
    IF Ok(c) THEN Return(PopUser(c, u)) ELSE MessageExcept(c, u, outs)
GenExcept(c, u, apology, outs) == GenExceptSent(Send(c, apology, <<>>, outs), u, outs)

\* the branches SKILLS, LOCATION and BUDGET
CollectSent(c, u, next, outs) ==
    IF Ok(c) THEN Return(SetField(c, u, "state", next)) ELSE MessageExcept(c, u, outs)
\* a collection step that forgets user_data[user_id][key] = message.text
CollectWithoutStore(ud, u, key, text, prompt, next, outs) ==
    CollectSent(Send(Ctx(ud), prompt, <<>>, outs), u, next, outs)
CollectStep(ud, u, key, text, prompt, next, outs) ==
    CollectSent(Send(Ctx(PutField(ud, u, key, text)), prompt, <<>>, outs), u, next, outs)

\* [i for i in range(1, 4) if i not in explored_ideas]
remaining_ideas(explored_ideas) ==
    SelectSeq(<<1, 2, 3>>, LAMBDA i : ~InList(i, explored_ideas))

\* idea_headings[i-1] of every remaining i is there
HeadingsFor(s, remaining) ==
    remaining # <<>> =>
       /\ Has(s, "idea_headings")
       /\ \A k \in 1 .. Len(remaining) : PyIndex(s.idea_headings, remaining[k] - 1) # <<>>
\* building the continuation keyboard faults: KeyError or IndexError
MenuFault(s) ==
    IF Has(s, "explored_ideas") THEN ~HeadingsFor(s, remaining_ideas(s.explored_ideas))
    ELSE TRUE

ExploreButtons(remaining) == [k \in 1 .. Len(remaining) |-> Explore(remaining[k])]
CustomButton(remaining) == IF remaining = <<>> THEN <<Tok("custom_idea")>> ELSE <<>>
\* a keyboard that leaves the custom-idea button out
MenuWithoutCustom(remaining) ==
    <<Tok("ask_question")>> \o ExploreButtons(remaining) \o <<Tok("end_conversation")>>
MenuOf(remaining) ==
    <<Tok("ask_question")>> \o ExploreButtons(remaining) \o CustomButton(remaining)
       \o <<Tok("end_conversation")>>
\* the keyboard built after an answer or an exploration
ContinuationMenu(s) == MenuOf(remaining_ideas(s.explored_ideas))

\* a keyboard of three explore buttons, whatever the headings
ThreeButtons(s) == <<Explore(1), Explore(2), Explore(3)>>
\* the keyboard of the GOALS branch: one button per heading
IdeasMenu(s) == [i \in 1 .. Len(s.idea_headings) |-> Explore(i)]

\* user_data[user_id]['state'] = State.EXPLORE_IDEA; ['explored_ideas'] = []
GoalsDone(c, u, outs) ==
    IF Ok(c)
    THEN Return(SetField(SetField(c, u, "state", EXPLORE_IDEA), u, "explored_ideas", <<>>))
    ELSE MessageExcept(c, u, outs)
GoalsSent(c, u, outs) ==
    IF Ok(c) THEN GoalsDone(Send(c, "choose_idea", IdeasMenu(c.ud[u]), outs), u, outs)
    ELSE GenExcept(c, u, "apology_ideas", outs)
\* ['ideas'] = cleaned_response; ['idea_headings'] = extract_idea_headings(...)
GoalsStore(c, u, cleaned_response, outs) ==
    GoalsSent(SendParts(SetField(SetField(c, u, "ideas", cleaned_response), u,
                                 "idea_headings", extract_idea_headings(cleaned_response)),
                        split_message(IdeasIntro \o <<NL>> \o cleaned_response, MAX_LENGTH),
                        1, "ideas", outs), u, outs)
GoalsGenerate(c, u, g, outs) ==
    IF ~HasAttrs(c.ud[u]) THEN MessageExcept(c, u, outs)
    ELSE IF GenFailed(g) THEN GenExcept(Called(c), u, "apology_ideas", outs)
    ELSE GoalsStore(Called(c), u, clean_response(g.text), outs)
GoalsBranch(ud, u, text, g, outs) ==
    GoalsGenerate(Ctx(PutField(ud, u, "goals", text)), u, g, outs)

CustomDone(c, u, outs) ==
    IF Ok(c) THEN Return(SetField(c, u, "state", ASK_QUESTION))
    ELSE MessageExcept(c, u, outs)
CustomSent(c, u, outs) ==
    IF Ok(c)
    THEN CustomDone(Send(c, "next_menu", <<Tok("ask_question"), Tok("end_conversation")>>,
                         outs), u, outs)
    ELSE GenExcept(c, u, "apology_custom", outs)
CustomGenerate(c, u, g, outs) ==
    IF ~HasAttrs(c.ud[u]) THEN MessageExcept(c, u, outs)
    ELSE IF GenFailed(g) THEN GenExcept(Called(c), u, "apology_custom", outs)
    ELSE CustomSent(Deliver(Called(c), g, "evaluation", outs), u, outs)
\* elif state == State.EXPLORE_IDEA
ExploreIdeaBranch(ud, u, text, g, outs) ==
    CustomGenerate(Ctx(PutField(ud, u, "custom_idea", text)), u, g, outs)

\* if not remaining_ideas: user_data[user_id]['state'] = State.CUSTOM_IDEA
AnswerDone(c, u, outs) ==
    IF ~Ok(c) THEN MessageExcept(c, u, outs)
    ELSE IF remaining_ideas(c.ud[u].explored_ideas) = <<>>
    THEN Return(SetField(c, u, "state", CUSTOM_IDEA))
    ELSE Return(c)
AnswerSent(c, u, outs) ==
    IF ~Ok(c) THEN GenExcept(c, u, "apology_answer", outs)
    ELSE IF MenuFault(c.ud[u]) THEN MessageExcept(c, u, outs)
    ELSE AnswerDone(Send(c, "anything_else", ContinuationMenu(c.ud[u]), outs), u, outs)
AnswerGenerate(c, u, g, outs) ==
    IF ~HasAttrs(c.ud[u]) THEN MessageExcept(c, u, outs)
    ELSE IF GenFailed(g) THEN GenExcept(Called(c), u, "apology_answer", outs)
    ELSE AnswerSent(Deliver(Called(c), g, "answer", outs), u, outs)
\* a question branch that stores the text as the user's goals
QuestionAsGoals(ud, u, text, g, outs) ==
    AnswerGenerate(Ctx(PutField(ud, u, "goals", text)), u, g, outs)
\* elif state == State.ASK_QUESTION
AskQuestionBranch(ud, u, text, g, outs) ==
    AnswerGenerate(Ctx(PutField(ud, u, "question", text)), u, g, outs)

\* the if/elif chain over state
StateBranch(ud, u, state, text, g, outs) ==
    CASE state = SKILLS -> CollectStep(ud, u, "skills", text, "ask_location", LOCATION, outs)
      [] state = LOCATION -> CollectStep(ud, u, "location", text, "ask_budget", BUDGET, outs)
      [] state = BUDGET -> CollectStep(ud, u, "budget", text, "ask_goals", GOALS, outs)
      [] state = GOALS -> GoalsBranch(ud, u, text, g, outs)
      [] state = EXPLORE_IDEA -> ExploreIdeaBranch(ud, u, text, g, outs)
      [] state = ASK_QUESTION -> AskQuestionBranch(ud, u, text, g, outs)
      [] OTHER -> Return(Ctx(ud))

\* a command branch that ends every conversation
CommandClears(ud, text, outs) == SendLast(Ctx(EmptyDict), "reprompt", <<>>, outs)
\* if message.text.startswith('/')
CommandText(ud, text, outs) ==
    IF text \notin {"/start", "/cancel"}
    THEN SendLast(Ctx(ud), "reprompt", <<>>, outs)
    ELSE Return(Ctx(ud))

\* an onboarding branch that opens a session
OnboardingCreates(ud, outs) ==
    SendLast(Ctx(Put(ud, BOT, [state |-> LOCATION])), "onboarding",
             <<Tok("start_new"), Tok("learn_more")>>, outs)
\* if user_id not in user_data or 'state' not in user_data[user_id]
Onboarding(ud, outs) ==
    SendLast(Ctx(ud), "onboarding", <<Tok("start_new"), Tok("learn_more")>>, outs)

handle_message(ud, u, text, g, outs) ==
    IF startswith_slash(text) THEN CommandText(ud, text, outs)
    ELSE IF ~Has(ud, u) \/ ~Has(ud[u], "state") THEN Onboarding(ud, outs)
    ELSE StateBranch(ud, u, ud[u].state, text, g, outs)

(***************************************************************************)
(* callback_handler                                                        *)
(***************************************************************************)
\* the except clause of callback_handler
CallbackExcept(c, outs) == SendLast(c, "something_wrong", <<>>, outs)

\* a branch that sends one fixed message
NoticeSent(c, outs) == IF Ok(c) THEN Return(c) ELSE CallbackExcept(c, outs)
\* a notice that ends every conversation
NoticeClears(ud, msg, menu, outs) == NoticeSent(Send(Ctx(EmptyDict), msg, menu, outs), outs)
Notice(ud, msg, menu, outs) == NoticeSent(Send(Ctx(ud), msg, menu, outs), outs)

\* start(call.message) returned or raised
StartNewDone(r, outs) ==
    IF r.raised THEN CallbackExcept([ud |-> r.ud, sent |-> r.sent, gen |-> r.gen], outs)
    ELSE r
\* start(call.message): call.message.from_user is the bot
StartNewSent(c, outs) ==
    IF Ok(c) THEN StartNewDone(start_body(c, BOT, outs), outs) ELSE CallbackExcept(c, outs)
\* call.data == "start_new"
StartNew(ud, outs) == StartNewSent(Send(Ctx(ud), "starting_new", <<>>, outs), outs)

\* the inner except clause of the explore_idea branch: apologise, pop, return
ExploreExceptSent(c, u, outs) ==
    IF Ok(c) THEN Return(PopUser(c, u)) ELSE CallbackExcept(c, outs)
ExploreExcept(c, u, outs) ==
    ExploreExceptSent(Send(c, "apology_explore", <<>>, outs), u, outs)

\* user_data[user_id].get('explored_ideas', [])
explored_or_empty(s) == IF Has(s, "explored_ideas") THEN s.explored_ideas ELSE <<>>

\* State.ASK_QUESTION if remaining_ideas else State.CUSTOM_IDEA
NextState(explored_ideas) ==
    IF remaining_ideas(explored_ideas) # <<>> THEN ASK_QUESTION ELSE CUSTOM_IDEA

ExploreDone(c, u, outs) ==
    IF Ok(c) THEN Return(SetField(c, u, "state", NextState(c.ud[u].explored_ideas)))
    ELSE CallbackExcept(c, outs)
ExploreSent(c, u, outs) ==
    IF ~Ok(c) THEN ExploreExcept(c, u, outs)
    ELSE IF MenuFault(c.ud[u]) THEN CallbackExcept(c, outs)
    ELSE ExploreDone(Send(c, "next_menu", ContinuationMenu(c.ud[u]), outs), u, outs)
\* idea_heading = idea_headings[idea_num-1]; the prompt; the generation
ExploreGenerate(c, u, n, g, outs) ==
    IF ~Has(c.ud[u], "idea_headings") \/ PyIndex(c.ud[u].idea_headings, n - 1) = <<>>
       \/ ~HasAttrs(c.ud[u])
    THEN CallbackExcept(c, outs)
    ELSE IF GenFailed(g) THEN ExploreExcept(Called(c), u, outs)
    ELSE ExploreSent(Deliver(Called(c), g, "breakdown", outs), u, outs)
\* explored_ideas = explored_ideas + [idea_num]
ExploreMark(ud, u, n) ==
    Ctx(PutField(ud, u, "explored_ideas", Append(explored_or_empty(ud[u]), n)))
\* an explore_idea branch without the test "idea_num in explored_ideas"
ExploreAgain(ud, u, n, g, outs) ==
    IF ~Has(ud, u) THEN CallbackExcept(Ctx(ud), outs)
    ELSE ExploreGenerate(ExploreMark(ud, u, n), u, n, g, outs)
\* call.data.startswith("explore_idea_"), idea_num = n
ExploreIdea(ud, u, n, g, outs) ==
    IF ~Has(ud, u) THEN CallbackExcept(Ctx(ud), outs)
    ELSE IF InList(n, explored_or_empty(ud[u]))
    THEN Notice(ud, "already_explored", <<>>, outs)
    ELSE ExploreGenerate(ExploreMark(ud, u, n), u, n, g, outs)

\* user_data[user_id]['state'] = state, after the send
SetModeSent(c, u, state, outs) ==
    IF Ok(c) /\ Has(c.ud, u) THEN Return(SetField(c, u, "state", state))
    ELSE CallbackExcept(c, outs)
\* call.data == "custom_idea" and call.data == "ask_question"
SetMode(ud, u, msg, state, outs) ==
    SetModeSent(Send(Ctx(ud), msg, <<>>, outs), u, state, outs)

ClosingMenu ==
    <<Tok("premium_strategy"), Tok("talk_expert"), Tok("final_end"), Tok("share_friends")>>

FinalEndSent(c, u, outs) ==
    IF Ok(c) THEN Return(PopUser(c, u)) ELSE CallbackExcept(c, outs)
\* call.data == "final_end"
FinalEnd(ud, u, outs) == FinalEndSent(Send(Ctx(ud), "thanks", <<>>, outs), u, outs)

\* the tokens of MenuSelection other than explore_idea_<n>, and one unknown token
Tokens ==
    {"start_new", "learn_more", "custom_idea", "ask_question", "end_conversation",
     "premium_strategy", "talk_expert", "final_end", "share_friends", "unknown"}

\* the buttons of the onboarding menu, and the tokens of every other menu
OnboardingTokens == {"start_new", "learn_more"}
ConversationTokens == Tokens \ {"start_new"}

\* callback_handler(call) with call.from_user.id = u and call.data = data,
\* or explore_idea_<n> when data = "explore_idea"
callback_handler(ud, u, data, n, g, outs) ==
    CASE data = "start_new" -> StartNew(ud, outs)
      [] data = "learn_more" -> Notice(ud, "learn_more", <<>>, outs)
      [] data = "explore_idea" -> ExploreIdea(ud, u, n, g, outs)
      [] data = "custom_idea" -> SetMode(ud, u, "ask_custom", EXPLORE_IDEA, outs)
      [] data = "ask_question" -> SetMode(ud, u, "ask_what_question", ASK_QUESTION, outs)
      [] data = "end_conversation" -> Notice(ud, "closing_menu", ClosingMenu, outs)
      [] data = "premium_strategy" -> Notice(ud, "premium_strategy", <<>>, outs)
      [] data = "talk_expert" -> Notice(ud, "talk_expert", <<>>, outs)
      [] data = "final_end" -> FinalEnd(ud, u, outs)
      [] data = "share_friends" -> Notice(ud, "share_friends", <<>>, outs)
      [] OTHER -> Notice(ud, "something_wrong", <<>>, outs)

(***************************************************************************)
(* The events and the state machine                                        *)
(***************************************************************************)
\* responses of the Generative Service: an error or timeout, an empty text, and
\* texts that yield no heading, two headings (one written as a header) and three
\* headings (out of four bold lines)
GenError == [ok |-> FALSE, text |-> <<>>]
GenText(t) == [ok |-> TRUE, text |-> t]
NoHeading == <<"a">>
TwoHeadings == <<"#", "#", " ", "1", ".", " ", "a", NL, "*", "*", "b", "*", "*", NL, "a">>
FourHeadings ==
    <<"*", "*", "a", "*", "*", NL, "*", "*", "b", "*", "*", NL,
      "*", "*", "a", "*", "*", NL, "*", "*", "b", "*", "*">>
IdeaOutcomes ==
    {GenError, GenText(<<>>), GenText(NoHeading), GenText(TwoHeadings), GenText(FourHeadings)}
AnswerOutcomes == {GenError, GenText(<<>>), GenText(NoHeading)}

\* the responses to choose from when handle_message runs on this store: those
\* of the branch that calls the service, one (unused) response elsewhere
TextOutcomes(ud, u, text) ==
    IF startswith_slash(text) \/ ~Has(ud, u) THEN {GenError}
    ELSE IF ud[u].state = GOALS THEN IdeaOutcomes
    ELSE IF ud[u].state \in {EXPLORE_IDEA, ASK_QUESTION, CUSTOM_IDEA} THEN AnswerOutcomes
    ELSE {GenError}
\* the buttons explore_idea_<n> of the ideas menu of u's conversation
OfferedSelections(ud, u) ==
    IF Has(ud, u) /\ Has(ud[u], "idea_headings")
    THEN {n \in Selections : n <= Len(ud[u].idea_headings)}
    ELSE {}
\* the responses to choose from when explore_idea_<n> is handled on this store
ExploreOutcomes(ud, u, n) ==
    IF Has(ud, u) /\ ~InList(n, explored_or_empty(ud[u])) THEN AnswerOutcomes
    ELSE {GenError}

Outs(k) == [1 .. k -> BOOLEAN]
\* the most calls of retry_send_message a run of each handler makes on this store
MenuSends(data) == IF data = "start_new" THEN MaxSends ELSE 2
MessageSends(ud, u, text) ==
    IF startswith_slash(text) \/ ~Has(ud, u) THEN 1
    ELSE IF ud[u].state \in {SKILLS, LOCATION, BUDGET} THEN 2
    ELSE 3
ExploreSends(ud, u, n) ==
    IF ~Has(ud, u) THEN 1
    ELSE IF InList(n, explored_or_empty(ud[u])) THEN 2
    ELSE 3

AllOk(r) == ~r.raised /\ \A k \in 1 .. Len(r.sent) : r.sent[k].ok

GenOf(r, g) == IF r.gen = 0 THEN "none" ELSE IF GenFailed(g) THEN "failed" ELSE "ok"

\* the state of u's session, "none" without one
StateOf(ud, u) == IF Has(ud, u) THEN ud[u].state ELSE "none"

\* what the last event was: the handler that ran, the sender, the text or token,
\* the n of explore_idea_<n>, the state of the sender's session when it arrived,
\* what the Generative Service did, how the handler ended
Event(handler, u, data, n, r, g) ==
    [handler |-> handler, user |-> u, data |-> data, n |-> n,
     state |-> StateOf(user_data, u), gen |-> GenOf(r, g), raised |-> r.raised]

\* the events since a start command, as long as they are free texts of the same
\* user whose handling met no failure: <<"start", text, text, ...>>, at most four texts
NextRun(handler, u, data, r, g) ==
    IF handler = "start" /\ AllOk(r) THEN <<"start">>
    ELSE IF /\ handler = "handle_message"
            /\ run # <<>>
            /\ last.user = u
            /\ Len(run) < 5
            /\ data \in Texts
            /\ AllOk(r)
            /\ GenOf(r, g) # "failed"
    THEN Append(run, data)
    ELSE <<>>

\* user_data = {}, no event handled yet
InitStore ==
    /\ user_data = EmptyDict
    /\ last = [handler |-> "none", user |-> BOT, data |-> "", n |-> 0,
               state |-> "none", gen |-> "none", raised |-> FALSE]
    /\ sent = <<>>
    /\ run = <<>>

\* no helper is being called on its own, no handler is in flight
Init == InitStore /\ arg = <<>> /\ ret = <<>> /\ retry = <<>> /\ threads = <<>>

\* the /start command of user u
StartCommand(u) ==
    \E outs \in Outs(3) :
      \E r \in {start(user_data, u, outs)} :
        /\ user_data' = r.ud
        /\ sent' = r.sent
        /\ last' = Event("start", u, "/start", 0, r, GenError)
        /\ run' = NextRun("start", u, "/start", r, GenError)
        /\ UNCHANGED <<arg, ret, retry, threads>>

\* the /cancel command of user u
CancelCommand(u) ==
    \E outs \in Outs(2) :
      \E r \in {cancel(user_data, u, outs)} :
        /\ user_data' = r.ud
        /\ sent' = r.sent
        /\ last' = Event("cancel", u, "/cancel", 0, r, GenError)
        /\ run' = <<>>
        /\ UNCHANGED <<arg, ret, retry, threads>>

\* a text message of user u that the command handlers do not take
TextMessage(u, texts) ==
    \E text \in texts \cup OtherCommands :
      \E g \in TextOutcomes(user_data, u, text),
         outs \in Outs(MessageSends(user_data, u, text)) :
        \E r \in {handle_message(user_data, u, text, g, outs)} :
          /\ user_data' = r.ud
          /\ sent' = r.sent
          /\ last' = Event("handle_message", u, text, 0, r, g)
          /\ run' = NextRun("handle_message", u, text, r, g)
          /\ UNCHANGED <<arg, ret, retry, threads>>

\* a button press of user u other than explore_idea_<n>
MenuSelection(u, tokens) ==
    \E data \in tokens :
      \E outs \in Outs(MenuSends(data)) :
        \E r \in {callback_handler(user_data, u, data, 0, GenError, outs)} :
          /\ user_data' = r.ud
          /\ sent' = r.sent
          /\ last' = Event("callback_handler", u, data, 0, r, GenError)
          /\ run' = <<>>
          /\ UNCHANGED <<arg, ret, retry, threads>>

\* the button explore_idea_<n> of the ideas menu pressed by user u
ExploreSelection(u) ==
    \E n \in OfferedSelections(user_data, u) :
      \E g \in ExploreOutcomes(user_data, u, n),
         outs \in Outs(ExploreSends(user_data, u, n)) :
        \E r \in {callback_handler(user_data, u, "explore_idea", n, g, outs)} :
          /\ user_data' = r.ud
          /\ sent' = r.sent
          /\ last' = Event("callback_handler", u, "explore_idea", n, r, g)
          /\ run' = <<>>
          /\ UNCHANGED <<arg, ret, retry, threads>>

\* idea_num = int(call.data.split('_')[-1]) of a button explore_idea_<n> that
\* no menu of the session need offer: sent early, late or twice (n = 1), or
\* with a number that no menu has (n = MaxSelection + 1)
AnySelections == {1, MaxSelection + 1}
StaleSelection(u) ==
    \E n \in AnySelections :
      \E g \in ExploreOutcomes(user_data, u, n),
         outs \in Outs(ExploreSends(user_data, u, n)) :
        \E r \in {callback_handler(user_data, u, "explore_idea", n, g, outs)} :
          /\ user_data' = r.ud
          /\ sent' = r.sent
          /\ last' = Event("callback_handler", u, "explore_idea", n, r, g)
          /\ run' = <<>>
          /\ UNCHANGED <<arg, ret, retry, threads>>

Next ==
    \E u \in Users :
        \/ StartCommand(u)
        \/ CancelCommand(u)
        \/ TextMessage(u, OneText)
        \/ MenuSelection(u, ConversationTokens)
        \/ ExploreSelection(u)

Spec == Init /\ [][Next]_vars

\* conversations of commands, texts and the buttons of the onboarding menu,
\* with two different free texts
NextCollect ==
    \E u \in Users :
        \/ StartCommand(u)
        \/ CancelCommand(u)
        \/ TextMessage(u, Texts)
        \/ MenuSelection(u, OnboardingTokens)

SpecCollect == Init /\ [][NextCollect]_vars

(***************************************************************************)
(* The helpers called on their own                                         *)
(***************************************************************************)
\* the texts of at most n characters over the characters of alphabet
TextsOver(alphabet, n) == UNION {[1 .. k -> alphabet] : k \in 0 .. n}

\* split_message(text, max_length) for every text of lines of "a" up to
\* MaxTextLen characters and every size up to MaxSize
MaxTextLen == 5
MaxSize == 4
InitChunker ==
    /\ InitStore /\ retry = <<>> /\ threads = <<>>
    /\ arg \in [text : TextsOver({"a", NL}, MaxTextLen), max_length : 1 .. MaxSize]
    /\ ret = <<>>
\* parts = split_message(text, max_length)
Split ==
    /\ ret = <<>>
    /\ ret' = <<split_message(arg.text, arg.max_length)>>
    /\ UNCHANGED <<user_data, last, sent, run, arg, retry, threads>>

SpecChunker == InitChunker /\ [][Split]_vars

\* clean_response(text) for every text up to MaxCleanLen characters that
\* mixes heading markers, emphasis delimiters, white space, a letter and a
\* non-ASCII character
MaxCleanLen == 5
CleanAlphabet == {"#", "1", ".", "*", "_", SP, NL, "a", NonAscii}
InitSanitizer ==
    /\ InitStore /\ retry = <<>> /\ threads = <<>>
    /\ arg \in [text : TextsOver(CleanAlphabet, MaxCleanLen)]
    /\ ret = <<>>
\* cleaned = clean_response(text)
Clean ==
    /\ ret = <<>>
    /\ ret' = <<clean_response(arg.text)>>
    /\ UNCHANGED <<user_data, last, sent, run, arg, retry, threads>>
\* clean_response(cleaned)
CleanAgain ==
    /\ Len(ret) = 1
    /\ ret' = Append(ret, clean_response(ret[1]))
    /\ UNCHANGED <<user_data, last, sent, run, arg, retry, threads>>

SpecSanitizer == InitSanitizer /\ [][Clean \/ CleanAgain]_vars

\* retry_send_message(func, retries, delay) step by step: the calls of func
\* with what each did (it returned, it raised a RequestException or an
\* ApiTelegramException, it raised another exception) and the waits between them
MaxRetries == 4
MaxDelay == 3
InitRetrier ==
    /\ InitStore /\ arg = <<>> /\ ret = <<>> /\ threads = <<>>
    /\ retry \in [retries : 1 .. MaxRetries, delay : 1 .. MaxDelay, attempt : {0},
                  pc : {"call"}, calls : {<<>>}, slept : {<<>>}]
\* a wait that grows by delay with each attempt
LinearBackoff(delay, attempt) == delay * (attempt + 1)
\* delay * (2 ** attempt)
Backoff(delay, attempt) == delay * 2 ^ attempt
\* return func(*args, timeout=timeout, **kwargs), and the except clause
Attempt ==
    /\ retry # <<>>
    /\ retry.pc = "call"
    /\ \E did \in {"returned", "transient", "other"} :
          retry' = [retry EXCEPT
                      !.calls = Append(@, did),
                      !.pc = IF did = "returned" THEN "returned"
                             ELSE IF did = "transient" /\ retry.attempt < retry.retries - 1
                             THEN "sleep"
                             ELSE "raised"]
    /\ UNCHANGED <<user_data, last, sent, run, arg, ret, threads>>
\* time.sleep(delay * (2 ** attempt)), and the next round of the loop
Sleep ==
    /\ retry # <<>>
    /\ retry.pc = "sleep"
    /\ retry' = [retry EXCEPT
                    !.slept = Append(@, Backoff(retry.delay, retry.attempt)),
                    !.attempt = @ + 1,
                    !.pc = "call"]
    /\ UNCHANGED <<user_data, last, sent, run, arg, ret, threads>>

SpecRetrier == InitRetrier /\ [][Attempt \/ Sleep]_vars

(***************************************************************************)
(* Two callback handlers of one user in flight at once: the worker threads *)
(* of the bot run explore_idea_<i> and explore_idea_<j> statement by       *)
(* statement, in any interleaving, on the same session.                    *)
(***************************************************************************)
\* the two worker threads that run handlers
Workers == {1, 2}
\* a session that has its three headings and has explored the ideas of explored
ExploringSession(explored) ==
    [state |-> IF explored = <<>> THEN EXPLORE_IDEA ELSE ASK_QUESTION,
     skills |-> "t1", location |-> "t1", budget |-> "t1", goals |-> "t1",
     ideas |-> clean_response(FourHeadings),
     idea_headings |-> extract_idea_headings(clean_response(FourHeadings)),
     explored_ideas |-> explored]
InitConcurrent ==
    /\ last = [handler |-> "none", user |-> BOT, data |-> "", n |-> 0,
               state |-> "none", gen |-> "none", raised |-> FALSE]
    /\ sent = <<>> /\ run = <<>> /\ arg = <<>> /\ ret = <<>> /\ retry = <<>>
    /\ \E u \in Users, explored \in {<<>>} \cup {<<k>> : k \in IdeaRange} :
          /\ user_data = Put(EmptyDict, u, ExploringSession(explored))
          /\ threads \in {<<[user |-> u, n |-> i, pc |-> "check", explored |-> <<>>,
                                remaining |-> <<>>],
                               [user |-> u, n |-> j, pc |-> "check", explored |-> <<>>,
                                remaining |-> <<>>]>> :
                             i \in IdeaRange, j \in IdeaRange}
\* if idea_num in user_data[user_id].get('explored_ideas', []): notice, return
Check(t) ==
    /\ threads[t].pc = "check"
    /\ threads' = [threads EXCEPT ![t].pc =
                      IF ~Has(user_data, threads[t].user) THEN "raised"
                      ELSE IF InList(threads[t].n,
                                     explored_or_empty(user_data[threads[t].user]))
                      THEN "noticed"
                      ELSE "read"]
    /\ UNCHANGED <<user_data, last, sent, run, arg, ret, retry>>
\* the right-hand side user_data[user_id].get('explored_ideas', []) + [idea_num]
ReadExplored(t) ==
    /\ threads[t].pc = "read"
    /\ threads' = IF ~Has(user_data, threads[t].user)
                  THEN [threads EXCEPT ![t].pc = "raised"]
                  ELSE [threads EXCEPT
                          ![t].pc = "write",
                          ![t].explored =
                              Append(explored_or_empty(user_data[threads[t].user]),
                                     threads[t].n)]
    /\ UNCHANGED <<user_data, last, sent, run, arg, ret, retry>>
\* the store user_data[user_id]['explored_ideas'] = ...
WriteExplored(t) ==
    /\ threads[t].pc = "write"
    /\ IF ~Has(user_data, threads[t].user)
       THEN /\ threads' = [threads EXCEPT ![t].pc = "raised"]
            /\ UNCHANGED user_data
       ELSE /\ threads' = [threads EXCEPT ![t].pc = "generate"]
            /\ user_data' = PutField(user_data, threads[t].user, "explored_ideas",
                                     threads[t].explored)
    /\ UNCHANGED <<last, sent, run, arg, ret, retry>>
\* the heading lookup, the generation and the delivery of the breakdown; on a
\* failure the inner except clause: apology, user_data.pop(user_id, None), return
Generate(t) ==
    /\ threads[t].pc = "generate"
    /\ \/ /\ Has(user_data, threads[t].user)
          /\ PyIndex(user_data[threads[t].user].idea_headings, threads[t].n - 1) # <<>>
          /\ \/ /\ threads' = [threads EXCEPT ![t].pc = "menu"]
                /\ UNCHANGED user_data
             \/ /\ threads' = [threads EXCEPT ![t].pc = "failed"]
                /\ user_data' = Pop(user_data, threads[t].user)
       \/ /\ ~Has(user_data, threads[t].user)
          /\ threads' = [threads EXCEPT ![t].pc = "raised"]
          /\ UNCHANGED user_data
    /\ UNCHANGED <<last, sent, run, arg, ret, retry>>
\* remaining_ideas = [i for i in range(1, 4) if i not in explored_ideas], the
\* keyboard, and the send of the menu, which returns or raises
BuildMenu(t) ==
    /\ threads[t].pc = "menu"
    /\ \/ /\ Has(user_data, threads[t].user)
          /\ ~MenuFault(user_data[threads[t].user])
          /\ \E delivered \in BOOLEAN :
                threads' = [threads EXCEPT
                              ![t].pc = IF delivered THEN "set_state" ELSE "raised",
                              ![t].remaining =
                                  remaining_ideas(user_data[threads[t].user].explored_ideas)]
       \/ /\ IF Has(user_data, threads[t].user)
             THEN MenuFault(user_data[threads[t].user])
             ELSE TRUE
          /\ threads' = [threads EXCEPT ![t].pc = "raised"]
    /\ UNCHANGED <<user_data, last, sent, run, arg, ret, retry>>
\* user_data[user_id]['state'] = State.ASK_QUESTION if remaining_ideas else State.CUSTOM_IDEA
SetState(t) ==
    /\ threads[t].pc = "set_state"
    /\ IF ~Has(user_data, threads[t].user)
       THEN /\ threads' = [threads EXCEPT ![t].pc = "raised"]
            /\ UNCHANGED user_data
       ELSE /\ threads' = [threads EXCEPT ![t].pc = "done"]
            /\ user_data' = PutField(user_data, threads[t].user, "state",
                                     IF threads[t].remaining # <<>> THEN ASK_QUESTION
                                     ELSE CUSTOM_IDEA)
    /\ UNCHANGED <<last, sent, run, arg, ret, retry>>

NextConcurrent ==
    \E t \in Workers :
        \/ Check(t)
        \/ ReadExplored(t)
        \/ WriteExplored(t)
        \/ Generate(t)
        \/ BuildMenu(t)
        \/ SetState(t)

SpecConcurrent == InitConcurrent /\ [][NextConcurrent]_vars

(***************************************************************************)
(* A command during a generation.  Thread 1 is a handler of user u that    *)
(* has called generate_content and waits for it: handle_message in         *)
(* State.GOALS (n = 0) or callback_handler for explore_idea_<n>.  Thread 2 *)
(* is the handler of a /start or /cancel of u.  Each statement that reads  *)
(* or writes the store is a step; the sends between two such statements    *)
(* belong to the step before them.  pc "failed" is a handler that ended in *)
(* an except clause that popped the session, pc "raised" one that ended in *)
(* an except clause that did not.  last is the command: its gen is         *)
(* "in_flight" when its handler ended before generate_content returned.    *)
(***************************************************************************)
InitInFlight ==
    /\ sent = <<>> /\ run = <<>> /\ arg = <<>> /\ ret = <<>> /\ retry = <<>>
    /\ last = [handler |-> "none", user |-> BOT, data |-> "", n |-> 0,
               state |-> "none", gen |-> "none", raised |-> FALSE]
    /\ \E u \in Users, n \in {0} \cup IdeaRange, command \in {"start", "cancel"} :
          /\ user_data =
                Put(EmptyDict, u,
                    IF n = 0
                    THEN [state |-> GOALS, skills |-> "t1", location |-> "t1",
                          budget |-> "t1", goals |-> "t1"]
                    ELSE [ExploringSession(<<>>) EXCEPT !.explored_ideas = <<n>>])
          /\ threads = <<[user |-> u, n |-> n, pc |-> "in_flight", explored |-> <<>>,
                          remaining |-> <<>>],
                         [user |-> u, n |-> 0, pc |-> command, explored |-> <<>>,
                          remaining |-> <<>>]>>
\* the except clauses of handle_message: the inner one apologises and pops; when
\* its send raises, or without an inner one, the outer one reports and pops,
\* unless its send raises too
MessageFails(t) ==
    \E popped \in BOOLEAN :
        /\ threads' = [threads EXCEPT ![t].pc = IF popped THEN "failed" ELSE "raised"]
        /\ user_data' = IF popped THEN Pop(user_data, threads[t].user) ELSE user_data
\* generate_content returns to the GOALS branch: ideas and idea_headings are
\* stored and the ideas are sent; an error, an empty text, a missing session or
\* a send that raises leads to the except clauses
GoalsReturns(t) ==
    /\ threads[t].pc = "in_flight" /\ threads[t].n = 0
    /\ \E g \in IdeaOutcomes :
          \/ /\ ~GenFailed(g)
             /\ Has(user_data, threads[t].user)
             /\ threads' = [threads EXCEPT ![t].pc = "goals_menu"]
             /\ user_data' =
                   PutField(PutField(user_data, threads[t].user, "ideas",
                                     clean_response(g.text)),
                            threads[t].user, "idea_headings",
                            extract_idea_headings(clean_response(g.text)))
          \/ /\ ~GenFailed(g)
             /\ Has(user_data, threads[t].user)
             /\ MessageFails(t)
          \/ /\ GenFailed(g) \/ ~Has(user_data, threads[t].user)
             /\ MessageFails(t)
    /\ UNCHANGED <<last, sent, run, arg, ret, retry>>
\* the keyboard of the headings and its send
GoalsMenu(t) ==
    /\ threads[t].pc = "goals_menu"
    /\ \/ /\ Has(user_data, threads[t].user)
          /\ Has(user_data[threads[t].user], "idea_headings")
          /\ threads' = [threads EXCEPT ![t].pc = "goals_state"]
          /\ UNCHANGED user_data
       \/ MessageFails(t)
    /\ UNCHANGED <<last, sent, run, arg, ret, retry>>
\* user_data[user_id]['state'] = State.EXPLORE_IDEA
GoalsSetState(t) ==
    /\ threads[t].pc = "goals_state"
    /\ IF Has(user_data, threads[t].user)
       THEN /\ threads' = [threads EXCEPT ![t].pc = "goals_explored"]
            /\ user_data' = PutField(user_data, threads[t].user, "state", EXPLORE_IDEA)
       ELSE MessageFails(t)
    /\ UNCHANGED <<last, sent, run, arg, ret, retry>>
\* user_data[user_id]['explored_ideas'] = []
GoalsSetExplored(t) ==
    /\ threads[t].pc = "goals_explored"
    /\ IF Has(user_data, threads[t].user)
       THEN /\ threads' = [threads EXCEPT ![t].pc = "done"]
            /\ user_data' = PutField(user_data, threads[t].user, "explored_ideas", <<>>)
       ELSE MessageFails(t)
    /\ UNCHANGED <<last, sent, run, arg, ret, retry>>
\* generate_content returns to the explore_idea branch: the breakdown is sent;
\* on a failure the inner except clause apologises and pops, and when its send
\* raises the outer one reports
ExploreReturns(t) ==
    /\ threads[t].pc = "in_flight" /\ threads[t].n > 0
    /\ \/ /\ threads' = [threads EXCEPT ![t].pc = "menu"]
          /\ UNCHANGED user_data
       \/ /\ threads' = [threads EXCEPT ![t].pc = "failed"]
          /\ user_data' = Pop(user_data, threads[t].user)
       \/ /\ threads' = [threads EXCEPT ![t].pc = "raised"]
          /\ UNCHANGED user_data
    /\ UNCHANGED <<last, sent, run, arg, ret, retry>>
\* user_data.pop(message.from_user.id, None), the first statement of start and of cancel
CommandPop(t) ==
    /\ threads[t].pc \in {"start", "cancel"}
    /\ threads' = [threads EXCEPT ![t].pc = IF @ = "start" THEN "welcome" ELSE "notify"]
    /\ user_data' = Pop(user_data, threads[t].user)
    /\ last' = [handler |-> threads[t].pc, user |-> threads[t].user,
                data |-> IF threads[t].pc = "start" THEN "/start" ELSE "/cancel",
                n |-> 0, state |-> StateOf(user_data, threads[t].user),
                gen |-> "none", raised |-> FALSE]
    /\ UNCHANGED <<sent, run, arg, ret, retry>>
\* the sends of start (welcome, set_chat_menu_button) and of cancel; when one
\* raises the except clause apologises and the handler ends
CommandSend(t) ==
    /\ threads[t].pc \in {"welcome", "notify"}
    /\ \E delivered \in BOOLEAN :
          /\ threads' = [threads EXCEPT ![t].pc =
                            IF ~delivered THEN "sorry"
                            ELSE IF @ = "welcome" THEN "create" ELSE "cancelled"]
          /\ last' = IF delivered /\ threads[t].pc = "welcome" THEN last
                     ELSE [last EXCEPT !.raised = ~delivered,
                                       !.gen = IF threads[1].pc = "in_flight"
                                               THEN "in_flight" ELSE "returned"]
    /\ UNCHANGED <<user_data, sent, run, arg, ret, retry>>
\* user_data[message.from_user.id] = {'state': State.SKILLS}
CommandCreate(t) ==
    /\ threads[t].pc = "create"
    /\ threads' = [threads EXCEPT ![t].pc = "started"]
    /\ user_data' = Put(user_data, threads[t].user, FreshSession)
    /\ last' = [last EXCEPT !.gen = IF threads[1].pc = "in_flight"
                                    THEN "in_flight" ELSE "returned"]
    /\ UNCHANGED <<sent, run, arg, ret, retry>>

SpecInFlight ==
    InitInFlight /\ [][\/ GoalsReturns(1)
                       \/ GoalsMenu(1)
                       \/ GoalsSetState(1)
                       \/ GoalsSetExplored(1)
                       \/ ExploreReturns(1)
                       \/ BuildMenu(1)
                       \/ SetState(1)
                       \/ CommandPop(2)
                       \/ CommandSend(2)
                       \/ CommandCreate(2)]_vars

\* conversations in which explore_idea_<n> arrives at any time and with any n
NextStale ==
    \E u \in Users :
        \/ StartCommand(u)
        \/ CancelCommand(u)
        \/ TextMessage(u, OneText)
        \/ StaleSelection(u)

SpecStale == Init /\ [][NextStale]_vars

(***************************************************************************)
(* The claims of the specification                                         *)
(***************************************************************************)
\* the event of the step was handled by h for user u
Handles(h, u) == last'.handler = h /\ last'.user = u
\* the step handled a free text (not a command) of user u
HandlesText(u) == Handles("handle_message", u) /\ last'.data \in Texts
\* the step handled explore_idea_<n> of user u, n = last'.n
HandlesExplore(u) == Handles("callback_handler", u) /\ last'.data = "explore_idea"
\* every call of retry_send_message of the last event returned
AllSent(msgs) == \A k \in 1 .. Len(msgs) : msgs[k].ok
\* the messages msg of a handler run that were delivered
Delivered(msgs, msg) == {k \in 1 .. Len(msgs) : msgs[k].msg = msg /\ msgs[k].ok}
\* the fields of a session other than state
Field(s, k) == IF Has(s, k) THEN <<s[k]>> ELSE <<>>
Collected(s) ==
    <<Field(s, "skills"), Field(s, "location"), Field(s, "budget"), Field(s, "goals")>>

\* C1: after a start command and four free texts of the same user, every send
\* and the generation succeeding, the user's session is in State.EXPLORE_IDEA,
\* its skills, location, budget and goals are the four texts in that order, it
\* has at most 3 idea_headings and its explored_ideas is empty.
C1_HappyPath ==
    \A u \in Users :
        (Len(run) = 5 /\ last.user = u) =>
            /\ Has(user_data, u)
            /\ user_data[u].state = EXPLORE_IDEA
            /\ Collected(user_data[u]) = <<<<run[2]>>, <<run[3]>>, <<run[4]>>, <<run[5]>>>>
            /\ Has(user_data[u], "idea_headings")
            /\ Len(user_data[u].idea_headings) <= MAX_HEADINGS
            /\ Field(user_data[u], "explored_ideas") = <<<<>>>>
\* a conversation that gave two different texts and got three headings
C1_Witness ==
    \E u \in Users :
        /\ Len(run) = 5
        /\ run[2] # run[3]
        /\ Has(user_data, u)
        /\ user_data[u].state = EXPLORE_IDEA
        /\ Len(user_data[u].idea_headings) = MAX_HEADINGS

\* C2: after a start command of user u is handled, whatever u's session was,
\* u has a fresh session: state SKILLS and no other field.
C2_StartFresh ==
    \A u \in Users :
        (last.handler = "start" /\ last.user = u) =>
            Has(user_data, u) /\ user_data[u] = FreshSession

\* C3: when the generation of the GOALS branch fails, the user's session is
\* removed and exactly one apology is sent for that event.
C3_GoalsFailure ==
    \A u \in Users :
        (/\ last.handler = "handle_message"
         /\ last.user = u
         /\ last.state = GOALS
         /\ last.gen = "failed") =>
            /\ ~Has(user_data, u)
            /\ Cardinality(Delivered(sent, "apology_ideas")) = 1

\* C4: a cancel command leaves the user without a session, whatever the state;
\* the next free text of that user only gets the onboarding prompt, and leaves
\* the store as it is: no session, nothing stored.
C4_CancelThenText ==
    [][\A u \in Users :
          /\ Handles("cancel", u) => ~Has(user_data', u)
          /\ (last.handler = "cancel" /\ last.user = u /\ HandlesText(u)) =>
                /\ user_data' = user_data
                /\ ~Has(user_data', u)
                /\ Len(sent') = 1
                /\ sent'[1].msg = "onboarding"
                /\ sent'[1].menu = <<Tok("start_new"), Tok("learn_more")>>]_vars
\* a cancel command received in State.BUDGET has been handled
C4_Witness ==
    /\ last.handler = "cancel"
    /\ last.state = BUDGET
    /\ ~Has(user_data, last.user)

\* C5: a free text, or a command other than /start and /cancel, of a user
\* without a session leaves the whole store unchanged.
C5_NoSessionFrame ==
    [][\A u \in Users :
          (~Has(user_data, u) /\ Handles("handle_message", u)) =>
              user_data' = user_data]_vars
\* such a text and such a command have been handled while the store was not empty
C5_Witness ==
    /\ last.handler = "handle_message"
    /\ last.state = "none"
    /\ last.data \in OtherCommands
    /\ user_data # EmptyDict

\* the step handles explore_idea_<n> for a session of u that has n in explored_ideas
AlreadyExplored(u) ==
    /\ HandlesExplore(u)
    /\ Has(user_data, u)
    /\ InList(last'.n, explored_or_empty(user_data[u]))

\* C6 as stated: selecting an idea that is already explored changes nothing,
\* requests no generation, and the already-explored notice is the only message.
C6_OnlyNotice ==
    [][\A u \in Users :
          AlreadyExplored(u) =>
              /\ user_data' = user_data
              /\ last'.gen = "none"
              /\ Len(sent') = 1
              /\ sent'[1].msg = "already_explored"]_vars
\* C6, amended: selecting an idea that is already explored changes nothing and
\* requests no generation; the already-explored notice is sent, and the only
\* other message is the "something went wrong" reply that follows when the
\* notice could not be delivered.
C6_NoOp ==
    [][\A u \in Users :
          AlreadyExplored(u) =>
              /\ user_data' = user_data
              /\ last'.gen = "none"
              /\ sent'[1].msg = "already_explored"
              /\ \/ Len(sent') = 1
                 \/ /\ Len(sent') = 2
                    /\ ~sent'[1].ok
                    /\ sent'[2].msg = "something_wrong"]_vars
\* an already explored idea has been selected again, and the notice was delivered
C6_Witness ==
    /\ last.handler = "callback_handler"
    /\ last.data = "explore_idea"
    /\ last.gen = "none"
    /\ Len(sent) = 1
    /\ sent[1].msg = "already_explored"
    /\ sent[1].ok
    /\ Has(user_data, last.user)
    /\ InList(last.n, explored_or_empty(user_data[last.user]))

\* C7: selecting an idea n that is not explored yet, in a session that is
\* choosing ideas or asking questions, the generation and every send succeeding,
\* adds n to explored_ideas and sets the state to ASK_QUESTION if an idea of
\* 1..3 remains unexplored, and to CUSTOM_IDEA otherwise.
C7_ExploreSuccess ==
    [][\A u \in Users :
          (/\ HandlesExplore(u)
           /\ Has(user_data, u)
           /\ user_data[u].state \in {EXPLORE_IDEA, ASK_QUESTION}
           /\ ~InList(last'.n, explored_or_empty(user_data[u]))
           /\ last'.gen = "ok"
           /\ ~last'.raised
           /\ AllSent(sent')) =>
              /\ Has(user_data', u)
              /\ InList(last'.n, explored_or_empty(user_data'[u]))
              /\ user_data'[u].state = NextState(explored_or_empty(user_data'[u]))]_vars

\* C8: when the generation fails while explore_idea_<n> is handled (every send
\* succeeding), the session is still there, in the same state, and n is not
\* marked as explored, so that n can be selected again.
C8_ExploreFailureRecoverable ==
    [][\A u \in Users :
          (/\ HandlesExplore(u)
           /\ Has(user_data, u)
           /\ user_data[u].state \in {EXPLORE_IDEA, ASK_QUESTION}
           /\ last'.gen = "failed"
           /\ AllSent(sent')) =>
              /\ Has(user_data', u)
              /\ user_data'[u].state = user_data[u].state
              /\ ~InList(last'.n, explored_or_empty(user_data'[u]))]_vars

\* C9: when the generation fails while a question is answered in ASK_QUESTION
\* (every send succeeding), the session is kept in ASK_QUESTION with the same
\* collected attributes, idea_headings and explored_ideas.
C9_QuestionFailureKeepsSession ==
    [][\A u \in Users :
          (/\ HandlesText(u)
           /\ Has(user_data, u)
           /\ user_data[u].state = ASK_QUESTION
           /\ Has(user_data[u], "idea_headings")
           /\ last'.gen = "failed"
           /\ AllSent(sent')) =>
              /\ Has(user_data', u)
              /\ user_data'[u].state = ASK_QUESTION
              /\ Collected(user_data'[u]) = Collected(user_data[u])
              /\ Field(user_data'[u], "idea_headings") = Field(user_data[u], "idea_headings")
              /\ Field(user_data'[u], "explored_ideas")
                    = Field(user_data[u], "explored_ideas")]_vars

\* C10: a free text received in State.CUSTOM_IDEA is evaluated as an idea of
\* the user's own: a generation is requested; when it succeeds the session
\* moves to ASK_QUESTION, when it fails the session is removed.
C10_CustomIdeaEvaluated ==
    [][\A u \in Users :
          (/\ HandlesText(u)
           /\ Has(user_data, u)
           /\ user_data[u].state = CUSTOM_IDEA) =>
              /\ last'.gen # "none"
              /\ (last'.gen = "ok" /\ AllSent(sent')) =>
                    Has(user_data', u) /\ user_data'[u].state = ASK_QUESTION
              /\ (last'.gen = "failed" /\ AllSent(sent')) => ~Has(user_data', u)]_vars

\* C11: with ideas 1, 2 and 3 all explored, in whatever order, a question that
\* is answered in ASK_QUESTION (the generation and every send succeeding) is
\* followed by a menu that has the custom-idea button and no explore button.
C11_MenuAfterAllExplored ==
    [][\A u \in Users :
          (/\ HandlesText(u)
           /\ Has(user_data, u)
           /\ user_data[u].state = ASK_QUESTION
           /\ remaining_ideas(explored_or_empty(user_data[u])) = <<>>
           /\ last'.gen = "ok"
           /\ AllSent(sent')) =>
              /\ sent' # <<>>
              /\ sent'[Len(sent')].msg = "anything_else"
              /\ sent'[Len(sent')].menu
                    = <<Tok("ask_question"), Tok("custom_idea"), Tok("end_conversation")>>]_vars
\* such a question has been answered after the ideas were explored in the order 3, 1, 2
C11_Witness ==
    /\ last.handler = "handle_message"
    /\ last.state = ASK_QUESTION
    /\ last.gen = "ok"
    /\ Has(user_data, last.user)
    /\ explored_or_empty(user_data[last.user]) = <<3, 1, 2>>
    /\ sent # <<>>
    /\ sent[Len(sent)].msg = "anything_else"
    /\ sent[Len(sent)].ok

\* C12: in every reachable store, whatever explore_idea_<n> presses arrived and
\* whenever they did, the explored ideas of each session are among 1, 2, 3 and
\* there are none unless the session has its idea_headings.
C12_ExploredIdeasValid ==
    \A id \in DOMAIN user_data :
        /\ \A k \in 1 .. Len(explored_or_empty(user_data[id])) :
               explored_or_empty(user_data[id])[k] \in 1 .. 3
        /\ explored_or_empty(user_data[id]) # <<>> => Has(user_data[id], "idea_headings")

\* the states of a session that has advanced past the collection of attribute k
PastCollection(k) ==
    CASE k = "skills" -> {LOCATION, BUDGET, GOALS, EXPLORE_IDEA, ASK_QUESTION, CUSTOM_IDEA}
      [] k = "location" -> {BUDGET, GOALS, EXPLORE_IDEA, ASK_QUESTION, CUSTOM_IDEA}
      [] k = "budget" -> {GOALS, EXPLORE_IDEA, ASK_QUESTION, CUSTOM_IDEA}
      [] k = "goals" -> {EXPLORE_IDEA, ASK_QUESTION, CUSTOM_IDEA}

HeadingsOf(ud, id) == IF Has(ud, id) THEN Field(ud[id], "idea_headings") ELSE <<>>

\* C14: the idea_headings of a session never have more than 3 entries, and
\* they are set or changed only while a text is handled in State.GOALS, after
\* the generation succeeded; no other event sets or changes them.
C14_HeadingsWrittenOnce ==
    [][\A id \in Ids :
          /\ HeadingsOf(user_data', id) # <<>> =>
                 Len(user_data'[id].idea_headings) <= 3
          /\ (/\ HeadingsOf(user_data', id) # HeadingsOf(user_data, id)
              /\ HeadingsOf(user_data', id) # <<>>) =>
                 /\ last'.handler = "handle_message"
                 /\ last'.user = id
                 /\ last'.state = GOALS
                 /\ last'.gen = "ok"]_vars
\* a session whose generated ideas have four headings keeps three of them
C14_Witness ==
    \E u \in Users :
        /\ Has(user_data, u)
        /\ Has(user_data[u], "ideas")
        /\ Len(AllHeadings(SplitLines(user_data[u].ideas))) = 4
        /\ Len(user_data[u].idea_headings) = 3
        /\ last.state = GOALS /\ last.gen = "ok"

\* the number of headings that the stored ideas text yields
HeadingCount(s) == Len(AllHeadings(SplitLines(s.ideas)))

\* C15: when the text generated in State.GOALS yields k < 3 headings, k = 0
\* included, and every send succeeds, no apology is sent, the session is kept
\* and enters State.EXPLORE_IDEA, and the menu has exactly the k buttons
\* explore_idea_1 .. explore_idea_k.
C15_FewerHeadings ==
    [][\A u \in Users :
          (/\ HandlesText(u)
           /\ last'.state = GOALS
           /\ last'.gen = "ok"
           /\ AllSent(sent')
           /\ Has(user_data', u) => HeadingCount(user_data'[u]) < 3) =>
              /\ Has(user_data', u)
              /\ ~last'.raised
              /\ user_data'[u].state = EXPLORE_IDEA
              /\ \A k \in 1 .. Len(sent') : sent'[k].msg # "apology_ideas"
              /\ sent' # <<>>
              /\ sent'[Len(sent')].msg = "choose_idea"
              /\ sent'[Len(sent')].menu
                    = [i \in 1 .. HeadingCount(user_data'[u]) |-> Explore(i)]]_vars
\* ideas without any heading were delivered and followed by a menu without buttons
C15_Witness ==
    /\ last.handler = "handle_message" /\ last.state = GOALS /\ last.gen = "ok"
    /\ Has(user_data, last.user)
    /\ user_data[last.user].state = EXPLORE_IDEA
    /\ HeadingCount(user_data[last.user]) = 0
    /\ sent # <<>>
    /\ sent[Len(sent)] = [msg |-> "choose_idea", menu |-> <<>>, ok |-> TRUE]

\* C16: after a final_end press of user u has been handled, u has no session,
\* whatever state the session was in and whether or not the closing message
\* could be sent (every other message being delivered).
C16_FinalEndRemoves ==
    (/\ last.handler = "callback_handler"
     /\ last.data = "final_end"
     /\ \A k \in 1 .. Len(sent) : sent[k].msg # "thanks" => sent[k].ok) =>
        ~Has(user_data, last.user)

\* C17: when the handling of a free text of a user with a session reaches the
\* top-level guard (the guard reports the error), the session of that user is
\* gone when the handler finishes.
C17_GuardRemoves ==
    (/\ last.handler = "handle_message"
     /\ last.data \in Texts
     /\ last.state # "none"
     /\ \E k \in 1 .. Len(sent) : sent[k].msg = "error") =>
        ~Has(user_data, last.user)

\* C18: a text that starts with '/' and is neither /start nor /cancel, from a
\* user with a session in any state, is answered with the re-prompt and nothing
\* else, and leaves the store as it was: the session, its state and all its
\* attributes are unchanged.
C18_CommandReprompts ==
    [][\A u \in Users :
          (/\ Handles("handle_message", u)
           /\ last'.data \in OtherCommands
           /\ Has(user_data, u)) =>
              /\ user_data' = user_data
              /\ Len(sent') = 1
              /\ sent'[1].msg = "reprompt"
              /\ sent'[1].menu = <<>>
              /\ last'.gen = "none"]_vars
\* such a text arrived in a session that was about to be asked a question
C18_Witness ==
    /\ last.handler = "handle_message"
    /\ last.data \in OtherCommands
    /\ last.state = ASK_QUESTION
    /\ Has(user_data, last.user)
    /\ HasAttrs(user_data[last.user])
    /\ sent = <<[msg |-> "reprompt", menu |-> <<>>, ok |-> TRUE]>>

\* the button tokens that only send a notice
NoticeTokens ==
    {"end_conversation", "premium_strategy", "talk_expert", "share_friends", "learn_more",
     "unknown"}

\* C19: a press of end_conversation, premium_strategy, talk_expert,
\* share_friends, learn_more or of an unknown token leaves the whole store
\* unchanged, whether or not the user who pressed has a session.
C19_NoticeFrame ==
    [][(last'.handler = "callback_handler" /\ last'.data \in NoticeTokens) =>
          user_data' = user_data]_vars
\* the closing menu was sent to a user whose session has its ideas
C19_Witness ==
    /\ last.handler = "callback_handler"
    /\ last.data = "end_conversation"
    /\ last.state \in {EXPLORE_IDEA, ASK_QUESTION, CUSTOM_IDEA}
    /\ Has(user_data, last.user)
    /\ Has(user_data[last.user], "idea_headings")
    /\ sent = <<[msg |-> "closing_menu", menu |-> ClosingMenu, ok |-> TRUE]>>

\* C20: when the set_chat_menu_button call of a start command fails after the
\* welcome prompt was sent, the user still gets a session in State.SKILLS.
C20_MenuButtonNotFatal ==
    (/\ last.handler = "start"
     /\ Delivered(sent, "welcome") # {}
     /\ \E k \in 1 .. Len(sent) : sent[k].msg = "set_chat_menu_button" /\ ~sent[k].ok
     /\ \A k \in 1 .. Len(sent) : sent[k].msg # "set_chat_menu_button" => sent[k].ok) =>
        /\ Has(user_data, last.user)
        /\ user_data[last.user].state = SKILLS

\* C21: handling an event of user u, whatever it is, changes no entry of the
\* store under an identifier other than u and creates none.
C21_OtherEntriesUnchanged ==
    [][\A u \in Users :
          last'.user = u =>
              \A id \in Ids \ {u} :
                  /\ Has(user_data', id) <=> Has(user_data, id)
                  /\ Has(user_data, id) => user_data'[id] = user_data[id]]_vars

\* len of the longest line of a text
RECURSIVE LongestOf(_)
LongestOf(lines) ==
    IF lines = <<>> THEN 0
    ELSE IF Len(lines[1]) > LongestOf(Tail(lines)) THEN Len(lines[1])
    ELSE LongestOf(Tail(lines))
LongestLine(t) == LongestOf(SplitLines(t))

\* C22: for every text and every size that is at least the length of the
\* longest line of the text, the parts of split_message joined with line
\* breaks are the text.
C22_RoundTrip ==
    (ret # <<>> /\ arg.max_length >= LongestLine(arg.text)) =>
        JoinLines(ret[1]) = arg.text

\* C23: for every text and every size, split_message returns at least one
\* part and none of its parts is the empty text.
C23_NoEmptyPart ==
    ret # <<>> =>
        /\ ret[1] # <<>>
        /\ \A k \in 1 .. Len(ret[1]) : ret[1][k] # <<>>

RECURSIVE RunsOf(_, _)
\* the parts are consecutive runs of whole lines, in the order of the lines
RunsOf(prts, lines) ==
    IF prts = <<>> THEN lines = <<>>
    ELSE \E k \in 0 .. Len(lines) :
            /\ JoinLines(Take(lines, k)) = prts[1]
            /\ RunsOf(Tail(prts), Drop(lines, k))

\* C24: every part of split_message(text, max) has at most max characters
\* unless it is a single line that is longer than max, and the parts are runs
\* of whole lines of the text in their order: no line is split or moved.
C24_ChunkerBound ==
    ret # <<>> =>
        /\ \A k \in 1 .. Len(ret[1]) :
               \/ Len(ret[1][k]) <= arg.max_length
               \/ Len(SplitLines(ret[1][k])) = 1
        /\ RunsOf(ret[1], SplitLines(arg.text))
\* a text was split into a line that is too long and a part of two lines
C24_Witness ==
    /\ ret # <<>>
    /\ ret[1][1] # <<>>
    /\ \E k \in 1 .. Len(ret[1]) : Len(ret[1][k]) > arg.max_length
    /\ \E k \in 1 .. Len(ret[1]) : Len(SplitLines(ret[1][k])) = 2

\* C25: a text with fewer characters than the size comes back as one part,
\* the text itself.
C25_Minimality ==
    (ret # <<>> /\ Len(arg.text) < arg.max_length) => ret[1] = <<arg.text>>
\* a text of two lines that fits the size was not split
C25_Witness ==
    /\ ret # <<>>
    /\ Len(arg.text) < arg.max_length
    /\ Len(SplitLines(arg.text)) = 2
    /\ ret[1] = <<arg.text>>

\* C26: clean_response(clean_response(x)) = clean_response(x) for every text
\* x, texts that mix '#', digits, '.', '*', '_', white space and non-ASCII
\* characters included.
C26_Idempotent == Len(ret) = 2 => ret[2] = ret[1]

\* C28: in what clean_response returns no '*' or '_' stands immediately
\* before a character that is neither white space nor '*' or '_'.
C28_DelimitersSpaced ==
    \A k \in 1 .. Len(ret) : \A i \in 1 .. Len(ret[k]) - 1 :
        IsDelim(ret[k][i]) => IsSpace(ret[k][i + 1]) \/ IsDelim(ret[k][i + 1])
\* a text with a header line and with a delimiter next to a letter was cleaned
C28_Witness ==
    /\ ret # <<>>
    /\ HeaderMatch(arg.text, 1) # <<0, 0>>
    /\ \E i \in 1 .. Len(ret[1]) - 2 :
           IsDelim(ret[1][i]) /\ ret[1][i + 1] = SP /\ ret[1][i + 2] = "a"

\* every call of the action made so far failed transiently
AllTransient == \A k \in 1 .. Len(retry.calls) : retry.calls[k] = "transient"

\* C27: when the action fails transiently at every call, retry_send_message
\* calls it exactly retries times, waits delay * 2^k before call k + 2 for
\* k = 0 .. retries - 2 and not after the last call, and then raises the
\* last failure.
C27_RetrierBound ==
    (retry # <<>> /\ AllTransient) =>
        /\ Len(retry.calls) <= retry.retries
        /\ \A k \in 1 .. Len(retry.slept) : retry.slept[k] = retry.delay * 2 ^ (k - 1)
        /\ retry.pc = "call" => Len(retry.slept) = Len(retry.calls)
        /\ retry.pc = "sleep" => Len(retry.slept) = Len(retry.calls) - 1
        /\ retry.pc # "returned"
        /\ retry.pc = "raised" =>
              /\ Len(retry.calls) = retry.retries
              /\ Len(retry.slept) = retry.retries - 1
\* four failing calls with the waits 3, 6 and 12 between them, and the failure raised
C27_Witness ==
    /\ retry # <<>>
    /\ retry.pc = "raised"
    /\ retry.calls = <<"transient", "transient", "transient", "transient">>
    /\ retry.slept = <<3, 6, 12>>

\* C29: a free text is evaluated as the user's own idea only in a session that
\* has explored all three ideas; a text that arrives in State.EXPLORE_IDEA
\* while ideas remain to be explored (right after the ideas were generated,
\* say) requests no generation, is not evaluated and does not move the session
\* to ASK_QUESTION.
C29_CustomOnlyAfterAll ==
    [][\A u \in Users :
          (/\ HandlesText(u)
           /\ Has(user_data, u)
           /\ user_data[u].state = EXPLORE_IDEA
           /\ Has(user_data[u], "idea_headings")
           /\ Len(user_data[u].idea_headings) = 3
           /\ remaining_ideas(explored_or_empty(user_data[u])) # <<>>
           /\ last'.gen # "failed"
           /\ AllSent(sent')) =>
              /\ last'.gen = "none"
              /\ \A k \in 1 .. Len(sent') : sent'[k].msg # "evaluation"
              /\ Has(user_data', u) => user_data'[u].state # ASK_QUESTION]_vars

\* C30: when explore_idea_i and explore_idea_j of one user, i # j and both
\* unexplored, are handled at the same time and both handlers complete, the
\* session's explored_ideas holds i and j and its state agrees with the ideas
\* that remain.
C30_NoLostUpdate ==
    (/\ threads # <<>>
     /\ threads[1].n # threads[2].n
     /\ \A t \in Workers : threads[t].pc = "done") =>
        /\ Has(user_data, threads[1].user)
        /\ \A t \in Workers :
               InList(threads[t].n, user_data[threads[t].user].explored_ideas)
        /\ user_data[threads[1].user].state
              = NextState(user_data[threads[1].user].explored_ideas)

\* C31: after a start_new press of user u has been handled (every send
\* succeeding), the store holds a session in State.SKILLS under u's own
\* identifier, so that the next free text of u is stored as u's skills.
C31_StartNewCreates ==
    [][\A u \in Users :
          /\ (/\ Handles("callback_handler", u)
              /\ last'.data = "start_new"
              /\ ~last'.raised
              /\ AllSent(sent')) =>
                 /\ Has(user_data', u)
                 /\ user_data'[u].state = SKILLS
          /\ (/\ last.handler = "callback_handler"
              /\ last.user = u
              /\ last.data = "start_new"
              /\ ~last.raised
              /\ AllSent(sent)
              /\ HandlesText(u)
              /\ AllSent(sent')) =>
                 /\ Has(user_data', u)
                 /\ Field(user_data'[u], "skills") = <<last'.data>>]_vars

\* C32: a session whose state is past collection (EXPLORE_IDEA, ASK_QUESTION
\* or CUSTOM_IDEA) has its skills, location, budget and goals, whatever
\* buttons were pressed while the attributes were being collected.
C32_PastCollectionComplete ==
    \A id \in DOMAIN user_data :
        user_data[id].state \in PastCollection("goals") => HasAttrs(user_data[id])

\* the explore_idea_<i> buttons of the menus of a handler run
ExploreIndexes(msgs) ==
    {i \in 1 .. MaxSelection + 1 :
        \E k \in 1 .. Len(msgs) : InList(Explore(i), msgs[k].menu)}

\* C33: in a session with fewer than 3 headings, an exploration of an offered
\* idea and an answered question (the generation and every send succeeding)
\* meet no index fault: no error is reported, the session is kept, every
\* explore button of the menu has an index within the headings, and the
\* exploration sets the state that agrees with the ideas that remain.
C33_NoIndexFault ==
    [][\A u \in Users :
          (/\ Has(user_data, u)
           /\ HasAttrs(user_data[u])
           /\ Has(user_data[u], "idea_headings")
           /\ Has(user_data[u], "explored_ideas")
           /\ Len(user_data[u].idea_headings) < 3
           /\ \/ /\ HandlesExplore(u)
                 /\ last'.n \in 1 .. Len(user_data[u].idea_headings)
                 /\ ~InList(last'.n, user_data[u].explored_ideas)
              \/ /\ HandlesText(u)
                 /\ user_data[u].state = ASK_QUESTION
           /\ last'.gen = "ok"
           /\ AllSent(sent')) =>
              /\ ~last'.raised
              /\ \A k \in 1 .. Len(sent') : sent'[k].msg \notin {"something_wrong", "error"}
              /\ Has(user_data', u)
              /\ ExploreIndexes(sent') \subseteq 1 .. Len(user_data[u].idea_headings)
              /\ HandlesExplore(u) =>
                    user_data'[u].state = NextState(user_data'[u].explored_ideas)]_vars

\* the handlers of both threads have ended
BothEnded ==
    /\ threads[1].pc \in {"done", "failed", "raised"}
    /\ threads[2].pc \in {"started", "cancelled", "sorry"}

\* C34: when a start or cancel command of a user was handled (its sends
\* succeeding) while a generation for that user was in flight, then after both
\* handlers have ended a cancelled user has no session and a restarted user
\* has a fresh session in State.SKILLS: nothing the older handler wrote.
C34_CommandNotUndone ==
    (/\ threads # <<>>
     /\ BothEnded
     /\ last.gen = "in_flight"
     /\ ~last.raised) =>
        /\ last.handler = "cancel" => ~Has(user_data, last.user)
        /\ last.handler = "start" =>
              /\ Has(user_data, last.user)
              /\ user_data[last.user] = FreshSession
====
